---- MODULE Spec2Model ----
(***************************************************************************)
(* A model of HTRModel (src/src/network/model.py): the adapter that owns   *)
(* the Train, Predict and Raw-predict graphs, its lifecycle operations,    *)
(* and the prefetching prediction loop of predict_generator.               *)
(***************************************************************************)
EXTENDS Integers, Sequences, FiniteSets, TLC

(* ------------------------------ bounds --------------------------------- *)

\* longest padded row of a decode output handed to predict_on_batch
MaxLen == 4
\* largest `steps` argument of predict_generator
MaxSteps == 2
\* largest `workers` argument of predict_generator
MaxWorkers == 2
\* the `max_queue_size` argument of predict_generator
QueueSize == 2

(* -------------------------- program constants -------------------------- *)

\* default of the top_paths parameter of __init__
top_paths == 1

\* examples of one batch
Examples == 1 .. 2
\* token ids the decode primitive emits, the padding sentinel among them
TokenIds == {-1, 1, 2}
\* label lengths of a 4-tuple batch
LabelLens == {0, 1, 3}
\* checkpoint paths; os.path.isfile holds of the second only
Paths == {"missing.hdf5", "ckpt.hdf5"}
Optimizers == {"rmsprop", "not-an-optimizer"}

(* ------------------------------ values --------------------------------- *)

\* a float32 tensor element holding the number n (the decode lambda casts
\* the decoded ids to float32)
F32(n) == [f32 |-> n]

\* Python's None, and an attribute __init__ never assigned
None == [kind |-> "None", gen |-> 0]
Unset == [kind |-> "Unset", gen |-> 0]
\* a Keras Model object; gen tells the object one compile() builds from
\* the object it replaces
Graph(kind, gen) == [kind |-> kind, gen |-> gen]
Fresh(g) == IF g.gen = 1 THEN 2 ELSE 1

\* calling a method through the reference g: on None or on a missing
\* attribute Python raises AttributeError
Deref(g) == IF g.kind \in {"None", "Unset"} THEN "AttributeError" ELSE "none"

isfile(target) == target # "missing.hdf5"

(* -------------------------- predict_on_batch --------------------------- *)

\* int(p): exact on a float32 that holds an integer
IntOf(p) == p.f32

\* p != -1: numeric comparison of the float with the sentinel
Keep(p) == p.f32 # -1

\* drops the padding at the end of the row only
RECURSIVE StripRowTrailing(_)
StripRowTrailing(pre) ==
    IF pre = << >> THEN << >>
    ELSE IF ~Keep(pre[Len(pre)])
         THEN StripRowTrailing(SubSeq(pre, 1, Len(pre) - 1))
         ELSE [i \in 1 .. Len(pre) |-> IntOf(pre[i])]

RECURSIVE StripRow(_)
\* [int(p) for p in pre if p != -1]
StripRow(pre) ==
    IF pre = << >> THEN << >>
    ELSE IF Keep(Head(pre)) THEN << IntOf(Head(pre)) >> \o StripRow(Tail(pre))
         ELSE StripRow(Tail(pre))

\* out[:-1] and out[-1]
Front(out) == SubSeq(out, 1, Len(out) - 1)
Last(out) == out[Len(out)]

\* np.exp of a log-probability, kept symbolic
Exp(lp) == [exp |-> lp]

\* np.transpose of the paths x examples nesting: examples x paths
Transpose(m) ==
    IF m = << >> THEN << >>
    ELSE [e \in 1 .. Len(m[1]) |-> [p \in 1 .. Len(m) |-> m[p][e]]]

\* the body of predict_on_batch after the graph ran: out is the list the
\* Predict graph returns, the decoded paths followed by the log-probabilities
PredictOnBatch(out) ==
    LET pred == [x \in 1 .. Len(Front(out)) |->
                    [e \in 1 .. Len(out[x]) |-> StripRow(out[x][e])]]
        prob == [x \in 1 .. Len(Last(out)) |-> Exp(Last(out)[x])]
    IN  << Transpose(pred), prob >>

\* rows of one dense decode output: all of one length, padded with -1
Rows(n) == [1 .. n -> {F32(t) : t \in TokenIds}]
Reverse(row) == [i \in 1 .. Len(row) |-> row[Len(row) + 1 - i]]
\* the list the Predict graph returns when it decodes to `rows`: the
\* top_paths decoded paths, then the log-probability of each example
Decoded(rows) ==
    [p \in 1 .. top_paths + 1 |->
        IF p <= top_paths THEN rows ELSE [e \in Examples |-> 0 - e]]
(* --------------------- the batches and their outputs ------------------- *)

\* what the Predict graph returns for the b-th batch of the input
GraphPredict(b) ==
    Decoded([e \in Examples |->
        IF e = 1 THEN << F32(b + 1), F32(b + 4), F32(-1), F32(-1) >>
                 ELSE << F32(b), F32(-1), F32(-1), F32(-1) >>])

\* the batches given to predict_on_batch alone: a row and its mirror
\* image, and the batches of the input
DecodeOutputs ==
    UNION { { Decoded([e \in Examples |-> IF e = 1 THEN row ELSE Reverse(row)])
              : row \in Rows(n) } : n \in 0 .. MaxLen }
    \cup { GraphPredict(b) : b \in 1 .. MaxSteps }

\* what the Raw-predict graph returns for it: one undecoded row per example
GraphRaw(b) == [e \in Examples |-> [raw |-> b, example |-> e]]

\* the value bound to pred in the loop body
BatchPred(raw, b) ==
    IF raw THEN GraphRaw(b) ELSE PredictOnBatch(GraphPredict(b))[1]

\* puts the new block in front
ExtendFront(outs, pred) == pred \o outs
\* allab_outs.extend(pred)
Extend(outs, pred) == outs \o pred

\* np.asarray(allab_outs)
AsArray(outs) == [ndarray |-> outs]
\* np.asarray raises on entries whose shapes do not combine into one
\* array; the shapes are the data's, and it takes two entries to disagree
MayNotConvert(outs) == Len(outs) >= 2

\* runs the body once more
LoopCondInclusive(done, total) == done <= total
\* while steps_done < steps
LoopCond(done, total) == done < total

(* ------------------------------- state --------------------------------- *)

VARIABLES
    model_train, model_pred, model_raw_pred,  \* the three graph references
    weights,        \* weights of the layers the three graphs share
    op, arg,        \* the operation last called, and its argument
    raised,         \* what that call raised ("none": it returned)
    result,         \* what it returned
    ran_train,      \* whether that call ran the Train graph
    \* the frame of predict_generator
    pc,             \* position of the control flow in predict_generator
    steps, workers, max_queue_size, is_sequence, use_multiprocessing,
    raw_returns,    \* its arguments
    steps_done, allab_outs, enqueuer, x,      \* its locals
    exc,            \* the exception in flight through its finally block
    try_exc,        \* the exception that left its try block
    pulls, predicts,\* batches pulled from the queue, predictions run
    \* the enqueuer's pool
    fut,            \* the submitted tasks, in submission order
    wtask,          \* the task each pool worker holds (0: none)
    gpos,           \* batches drawn from the generator, per generator copy
    overtaken       \* a task finished while an earlier one was running

life == << model_train, model_pred, model_raw_pred, weights >>
call == << op, arg, raised, result, ran_train >>
args == << steps, workers, max_queue_size, is_sequence, use_multiprocessing,
           raw_returns >>
locals == << steps_done, allab_outs, enqueuer, x, exc, try_exc, pulls,
             predicts >>
pool == << fut, wtask, gpos, overtaken >>
frame == << pc, args, locals, pool >>
vars == << life, call, frame >>

Uncompiled == model_train = None
NoResult == << >>

\* no predict_generator frame is live: the control flow is the caller's
AtCaller == pc \in {"idle", "done"}

\* a call of another operation: the frame of the last predict_generator
\* call is gone
NoFrame ==
    /\ pc' = "idle"
    /\ steps' = 0 /\ workers' = 1 /\ max_queue_size' = 1
    /\ is_sequence' = FALSE /\ use_multiprocessing' = FALSE
    /\ raw_returns' = FALSE
    /\ steps_done' = 0 /\ allab_outs' = << >> /\ enqueuer' = "None"
    /\ x' = 0 /\ exc' = "none" /\ try_exc' = "none"
    /\ pulls' = 0 /\ predicts' = 0
    /\ fut' = << >> /\ wtask' = << >> /\ gpos' = << >> /\ overtaken' = FALSE

\* __init__
Init ==
    /\ model_train = None
    /\ model_pred = None
    /\ model_raw_pred = Unset
    /\ weights = "initial"
    /\ op = "__init__" /\ arg = "" /\ raised = "none"
    /\ result = NoResult /\ ran_train = FALSE
    /\ pc = "idle"
    /\ steps = 0 /\ workers = 1 /\ max_queue_size = 1
    /\ is_sequence = FALSE /\ use_multiprocessing = FALSE
    /\ raw_returns = FALSE
    /\ steps_done = 0 /\ allab_outs = << >> /\ enqueuer = "None"
    /\ x = 0 /\ exc = "none" /\ try_exc = "none"
    /\ pulls = 0 /\ predicts = 0
    /\ fut = << >> /\ wtask = << >> /\ gpos = << >> /\ overtaken = FALSE

(* --------------------------- the operations ---------------------------- *)

\* summary(output, target): both branches end in self.model_train.summary()
Summary(target) ==
    /\ AtCaller
    /\ op' = "summary" /\ arg' = target
    /\ raised' = Deref(model_train)
    /\ result' = NoResult /\ ran_train' = FALSE
    /\ UNCHANGED life
    /\ NoFrame

\* loads whatever the path
LoadGuardAlways(target) == TRUE
\* if os.path.isfile(target)
LoadGuard(target) == isfile(target)

\* load_checkpoint(target). self.compile() is called without the optimizer
\* compile requires: Python raises TypeError before compile's body runs.
LoadCheckpoint(target) ==
    /\ AtCaller
    /\ op' = "load_checkpoint" /\ arg' = target
    /\ ran_train' = FALSE
    /\ IF ~LoadGuard(target)
       THEN /\ raised' = "none" /\ result' = NoResult
            /\ UNCHANGED life
       ELSE IF model_train = None
       THEN /\ raised' = "TypeError" /\ result' = NoResult
            /\ UNCHANGED life
       ELSE /\ raised' = "none"
            \* load_weights(target, by_name=True) on each graph in turn
            /\ result' = << model_train.kind, model_pred.kind,
                            model_raw_pred.kind >>
            /\ weights' = target
            /\ UNCHANGED << model_train, model_pred, model_raw_pred >>
    /\ NoFrame

\* builds the two graphs of compile's docstring only
CompileGraphsTwo(gen) ==
    /\ model_train' = Graph("Train", gen)
    /\ model_pred' = Graph("Predict", gen)
    /\ UNCHANGED model_raw_pred
\* the three assignments of compile after the Lambda layers are built
CompileGraphs(gen) ==
    /\ model_train' = Graph("Train", gen)
    /\ model_pred' = Graph("Predict", gen)
    /\ model_raw_pred' = Graph("RawPredict", gen)

\* compile(optimizer): the graphs are assigned, then each is bound to the
\* optimizer; an optimizer Keras cannot interpret raises there, after the
\* assignments. The layers, and so the weights, are those of __init__.
Compile(optimizer) ==
    /\ AtCaller
    /\ op' = "compile" /\ arg' = optimizer
    /\ CompileGraphs(Fresh(model_train))
    /\ raised' = IF optimizer = "rmsprop" THEN "none" ELSE "ValueError"
    /\ result' = NoResult /\ ran_train' = FALSE
    /\ UNCHANGED weights
    /\ NoFrame

\* fit_generator: delegates to the Train graph's training loop
FitGenerator ==
    /\ AtCaller
    /\ op' = "fit_generator" /\ arg' = ""
    /\ raised' = Deref(model_train)
    /\ IF Deref(model_train) = "none"
       THEN /\ weights' = "trained" /\ ran_train' = TRUE
            /\ result' = << "History" >>
       ELSE /\ UNCHANGED weights /\ ran_train' = FALSE
            /\ result' = NoResult
    /\ UNCHANGED << model_train, model_pred, model_raw_pred >>
    /\ NoFrame

\* predict_on_batch(x): out is what the Predict graph returns for x
PredictOnBatchCall(out) ==
    /\ AtCaller
    /\ op' = "predict_on_batch" /\ arg' = out
    /\ raised' = Deref(model_pred)
    /\ result' = IF Deref(model_pred) = "none"
                 THEN PredictOnBatch(out)
                 ELSE NoResult
    /\ ran_train' = FALSE
    /\ UNCHANGED life
    /\ NoFrame

\* no_lab = True if 0 in y_len else False
NoLab(y_len) == \E i \in DOMAIN y_len : y_len[i] = 0

\* K.ctc_batch_cost of the Train graph, kept symbolic: one cost per example
CtcBatchCost(y_len) == [e \in DOMAIN y_len |-> [ctc |-> y_len[e]]]

\* get_loss_on_batch(inputs): loss_data is bound only in the branch that
\* runs the Train graph; the return statement reads it in both
GetLossOnBatch(y_len) ==
    /\ AtCaller
    /\ op' = "get_loss_on_batch" /\ arg' = y_len
    /\ IF NoLab(y_len)
       THEN /\ raised' = "UnboundLocalError" /\ ran_train' = FALSE
            /\ result' = NoResult
       ELSE /\ raised' = Deref(model_train)
            /\ ran_train' = (Deref(model_train) = "none")
            /\ result' = IF Deref(model_train) = "none"
                         THEN << [sum |-> CtcBatchCost(y_len)],
                                 CtcBatchCost(y_len) >>
                         ELSE NoResult
    /\ UNCHANGED life
    /\ NoFrame

Lifecycle ==
    \/ \E target \in {"", "summary.txt"} : Summary(target)
    \/ \E target \in Paths : LoadCheckpoint(target)
    \/ \E optimizer \in Optimizers : Compile(optimizer)
    \/ FitGenerator
    \/ \E b \in 1 .. MaxSteps : PredictOnBatchCall(GraphPredict(b))
    \/ \E y_len \in [Examples -> LabelLens] : GetLossOnBatch(y_len)

(* -------------------------- predict_generator -------------------------- *)

\* predict_generator is called: the two _make_predict_function calls come
\* first, outside the try block
PG_Call(st, w, seq, mp, raw) ==
    /\ AtCaller
    /\ op' = "predict_generator" /\ arg' = ""
    /\ result' = NoResult /\ ran_train' = FALSE
    /\ UNCHANGED life
    /\ IF Deref(model_pred) # "none" \/ Deref(model_raw_pred) # "none"
       THEN /\ raised' = "AttributeError"
            /\ NoFrame
       ELSE /\ raised' = "pending"
            /\ pc' = "try"
            /\ steps' = st /\ workers' = w /\ max_queue_size' = QueueSize
            /\ is_sequence' = seq /\ use_multiprocessing' = mp
            /\ raw_returns' = raw
            /\ steps_done' = 0 /\ allab_outs' = << >> /\ enqueuer' = "None"
            /\ x' = 0 /\ exc' = "none" /\ try_exc' = "none"
            /\ pulls' = 0 /\ predicts' = 0
            /\ fut' = << >> /\ wtask' = << >> /\ gpos' = << >>
            /\ overtaken' = FALSE

\* an exception leaves the try block
Raise(e) ==
    /\ exc' = e /\ try_exc' = e
    /\ pc' = "finally"

\* OrderedEnqueuer(...) or GeneratorEnqueuer(...)
PG_Create ==
    /\ pc = "try"
    /\ \/ /\ enqueuer' = "created"
          /\ pc' = "start"
          /\ UNCHANGED << exc, try_exc >>
       \/ /\ Raise("EnqueuerError")
          /\ UNCHANGED enqueuer
    /\ UNCHANGED << life, call, args, steps_done, allab_outs, x, pulls,
                    predicts, pool >>

\* enqueuer.start(workers, max_queue_size); enqueuer.get()
PG_Start ==
    /\ pc = "start"
    /\ \/ /\ enqueuer' = "running"
          /\ wtask' = [v \in 1 .. workers |-> 0]
          /\ gpos' = [v \in 1 .. workers |-> 0]
          /\ pc' = "loop"
          /\ UNCHANGED << exc, try_exc >>
       \/ /\ Raise("EnqueuerError")
          /\ UNCHANGED << enqueuer, wtask, gpos >>
    /\ UNCHANGED << life, call, args, steps_done, allab_outs, x, pulls,
                    predicts, fut, overtaken >>

\* x = next(output_generator): the head of the queue, once its task is
\* over: the batch the task produced, or the exception it raised
PG_Next ==
    /\ pc = "loop"
    /\ LoopCond(steps_done, steps)
    /\ pulls < Len(fut)
    /\ fut[pulls + 1].st = "done"
    /\ pulls' = pulls + 1
    /\ \/ /\ x' = fut[pulls + 1].val
          /\ pc' = "predict"
          /\ UNCHANGED << exc, try_exc >>
       \/ /\ Raise("GeneratorError")
          /\ UNCHANGED x
    /\ UNCHANGED << life, call, args, steps_done, allab_outs, enqueuer,
                    predicts, pool >>

\* the loop body after the pull
PG_Predict ==
    /\ pc = "predict"
    /\ predicts' = predicts + 1
    /\ \/ /\ allab_outs' = Extend(allab_outs, BatchPred(raw_returns, x))
          /\ steps_done' = steps_done + 1
          /\ pc' = "loop"
          /\ UNCHANGED << exc, try_exc >>
       \/ /\ Raise("PredictError")
          /\ UNCHANGED << allab_outs, steps_done >>
    /\ UNCHANGED << life, call, args, enqueuer, x, pulls, pool >>

\* the loop condition fails: the try block ends
PG_LoopExit ==
    /\ pc = "loop"
    /\ ~LoopCond(steps_done, steps)
    /\ pc' = "finally"
    /\ UNCHANGED << life, call, args, locals, pool >>

\* finally: allab_outs = np.asarray(allab_outs). An exception raised here
\* replaces the one in flight and skips the rest of the block.
PG_Convert ==
    /\ pc = "finally"
    /\ \/ /\ allab_outs' = AsArray(allab_outs)
          /\ pc' = "stop"
          /\ UNCHANGED << exc, raised >>
       \/ /\ MayNotConvert(allab_outs)
          /\ exc' = "ConversionError"
          /\ raised' = "ConversionError"
          /\ pc' = "done"
          /\ UNCHANGED allab_outs
    /\ UNCHANGED << life, op, arg, result, ran_train, args, steps_done,
                    enqueuer, x, try_exc, pulls, predicts, pool >>

\* finally: if enqueuer is not None: enqueuer.stop(), which ends the pool
\* and clears the queue; then the exception in flight goes on, or the
\* function returns allab_outs
PG_Stop ==
    /\ pc = "stop"
    /\ IF enqueuer # "None"
       THEN /\ enqueuer' = "stopped"
            /\ fut' = << >> /\ wtask' = << >> /\ gpos' = << >>
       ELSE UNCHANGED << enqueuer, fut, wtask, gpos >>
    /\ raised' = exc
    /\ result' = IF exc = "none" THEN << allab_outs >> ELSE NoResult
    /\ pc' = "done"
    /\ UNCHANGED << life, op, arg, ran_train, args, steps_done, allab_outs,
                    x, exc, try_exc, pulls, predicts, overtaken >>

(* ------------------ the enqueuer's pool (Keras' side) ------------------ *)

\* the enqueuer's thread submits the next task to the pool and puts its
\* future on the queue, while the queue has room
Submit ==
    /\ enqueuer = "running"
    /\ Len(fut) - pulls < max_queue_size
    /\ fut' = Append(fut, [st |-> "queued", val |-> 0])
    /\ UNCHANGED << life, call, pc, args, locals, wtask, gpos, overtaken >>

\* a free pool worker takes the oldest task nobody took
WorkerPick(w) ==
    /\ enqueuer = "running"
    /\ wtask[w] = 0
    /\ \E t \in 1 .. Len(fut) :
        /\ fut[t].st = "queued"
        /\ \A u \in 1 .. t - 1 : fut[u].st # "queued"
        /\ fut' = [fut EXCEPT ![t].st = "running"]
        /\ wtask' = [wtask EXCEPT ![w] = t]
    /\ UNCHANGED << life, call, pc, args, locals, gpos, overtaken >>

\* the worker runs its task: item t of a Sequence, or next() of the
\* generator (one generator shared by the threads, one copy in each
\* process)
WorkerExec(w) ==
    /\ enqueuer = "running"
    /\ wtask[w] # 0
    /\ wtask' = [wtask EXCEPT ![w] = 0]
    /\ overtaken' =
        (overtaken \/ \E u \in 1 .. wtask[w] - 1 : fut[u].st = "running")
    /\ \/ /\ is_sequence
          /\ fut' = [fut EXCEPT ![wtask[w]] = [st |-> "done", val |-> wtask[w]]]
          /\ UNCHANGED gpos
       \/ /\ ~is_sequence
          /\ fut' = [fut EXCEPT ![wtask[w]] =
                        [st |-> "done", val |-> gpos[w] + 1]]
          /\ gpos' = IF use_multiprocessing
                     THEN [gpos EXCEPT ![w] = gpos[w] + 1]
                     ELSE [v \in DOMAIN gpos |-> gpos[w] + 1]
    /\ UNCHANGED << life, call, pc, args, locals >>

\* the steps of a predict_generator call in progress
PG_Steps ==
    \/ PG_Create
    \/ PG_Start
    \/ PG_Next
    \/ PG_Predict
    \/ PG_LoopExit
    \/ PG_Convert
    \/ PG_Stop

Pool ==
    \/ Submit
    \/ \E w \in 1 .. MaxWorkers : w <= workers /\ WorkerPick(w)
    \/ \E w \in 1 .. MaxWorkers : w <= workers /\ WorkerExec(w)

\* the adapter's life: every operation, predict_generator with the
\* defaults of its signature (steps=1, workers=1, use_multiprocessing=True,
\* raw_returns=False) on a Sequence or on a plain generator
Next ==
    \/ Lifecycle
    \/ \E seq \in BOOLEAN : PG_Call(1, 1, seq, TRUE, FALSE)
    \/ PG_Steps
    \/ Pool

Spec == Init /\ [][Next]_vars

\* predict_generator on a compiled adapter, over all its arguments
NextPredict ==
    \/ Compile("rmsprop")
    \/ \E st \in 0 .. MaxSteps, w \in 1 .. MaxWorkers,
          seq \in BOOLEAN, mp \in BOOLEAN, raw \in BOOLEAN :
            PG_Call(st, w, seq, mp, raw)
    \/ PG_Steps
    \/ Pool

SpecPredict == Init /\ [][NextPredict]_vars

\* predict_on_batch alone, on every batch of DecodeOutputs
NextDecode ==
    \/ \E optimizer \in Optimizers : Compile(optimizer)
    \/ \E out \in DecodeOutputs : PredictOnBatchCall(out)

SpecDecode == Init /\ [][NextDecode]_vars

(* ----------------------------- the properties --------------------------- *)

\* a predict_generator call is over: control is back at the caller
Returned == op = "predict_generator" /\ pc = "done"

\* C1: once the enqueuer has been created, every exit of predict_generator
\* has run enqueuer.stop() before control is back at the caller.
C1_StoppedOnEveryExit ==
    (Returned /\ enqueuer # "None") => enqueuer = "stopped"

\* C2: predict_generator never pulls more than `steps` batches and runs one
\* prediction per pulled batch; a run that returns without an error pulled
\* exactly `steps` batches, predicted each of them, and started and stopped
\* the queue (also when steps = 0).
C2_ExactlyStepsBatches ==
    /\ op = "predict_generator" =>
          /\ pulls <= steps
          /\ predicts <= pulls
          /\ pulls - predicts <= 1
    /\ (Returned /\ raised = "none") =>
          /\ pulls = steps
          /\ predicts = steps
          /\ steps_done = steps
          /\ enqueuer = "stopped"

\* C2's case: a run of two steps with two producers returned normally
C2_Witness ==
    /\ Returned /\ raised = "none"
    /\ steps = 2 /\ workers = 2 /\ pulls = 2

RECURSIVE ExpectedOuts(_, _)
\* the predictions of the batches 1 .. n of the input, in that order
ExpectedOuts(raw, n) ==
    IF n = 0 THEN << >> ELSE ExpectedOuts(raw, n - 1) \o BatchPred(raw, n)

\* C3, as claimed: for every number of workers and both kinds of input, the
\* i-th block of the result is the prediction of the i-th batch.
C3_InOrderForAllInputs ==
    (Returned /\ raised = "none") =>
        result = << AsArray(ExpectedOuts(raw_returns, steps)) >>

\* C3, amended: the i-th block of the result is the prediction of the i-th
\* batch for a Sequence with any number of workers, and for a plain
\* generator with a single worker.
C3_InOrderSequenceOrOneWorker ==
    (Returned /\ raised = "none" /\ (is_sequence \/ workers = 1)) =>
        result = << AsArray(ExpectedOuts(raw_returns, steps)) >>

\* C3's case: a Sequence read by two producers, a later batch produced
\* before an earlier one, and the run returned
C3_Witness ==
    /\ Returned /\ raised = "none"
    /\ is_sequence /\ workers = 2 /\ steps = 2 /\ overtaken

\* C4: get_loss_on_batch on a batch with a zero label length does not run
\* the Train graph and returns to the caller without raising (on a
\* compiled adapter).
C4_ZeroLabelLengthReturns ==
    (op = "get_loss_on_batch" /\ NoLab(arg) /\ ~Uncompiled) =>
        (~ran_train /\ raised = "none")

\* C5: load_checkpoint of an existing file on an uncompiled adapter compiles
\* it, loads the weights into the three graphs and does not raise.
C5_LoadCompilesFirst ==
    [][(model_train = None /\ op' = "load_checkpoint" /\ isfile(arg')) =>
        /\ raised' = "none"
        /\ model_train'.kind = "Train"
        /\ model_pred'.kind = "Predict"
        /\ model_raw_pred'.kind = "RawPredict"
        /\ weights' = arg']_vars

\* C6: load_checkpoint of a path that is no file changes neither the graphs
\* nor the weights, compiled or not, and does not raise.
C6_MissingPathIsNoOp ==
    [][(op' = "load_checkpoint" /\ ~isfile(arg')) =>
        (UNCHANGED life /\ raised' = "none")]_vars

\* C6's case: the call was made on a compiled adapter with trained weights
C6_Witness ==
    /\ op = "load_checkpoint" /\ ~isfile(arg)
    /\ model_train.kind = "Train" /\ weights = "trained"

GraphOps == {"summary", "fit_generator", "predict_generator",
             "predict_on_batch", "get_loss_on_batch"}

\* C7: an operation that needs the graphs, called before compile, fails
\* with a "model not compiled" error.
C7_ClearErrorWhenUncompiled ==
    (Uncompiled /\ op \in GraphOps) => raised = "ModelNotCompiledError"

\* the indices of `row` that hold a token
Tokens(row) == {i \in 1 .. Len(row) : row[i].f32 # -1}

\* `stripped` is `row` without its sentinels: it holds no -1, as many
\* entries as `row` holds tokens, and the k-th token of `row` at place k
IsStrippedOf(stripped, row) ==
    /\ \A k \in 1 .. Len(stripped) : stripped[k] # -1
    /\ Len(stripped) = Cardinality(Tokens(row))
    /\ \A i \in Tokens(row) :
          stripped[Cardinality({j \in Tokens(row) : j <= i})] = row[i].f32

\* the decode output of the spec's scenario
ScenarioOut ==
    Decoded(<< << F32(2), F32(5), F32(-1), F32(-1) >>,
               << F32(1), F32(-1), F32(-1), F32(-1) >> >>)

C9_ErrorUnchangedNoPartial ==
    (Returned /\ try_exc # "none") =>
        (raised = try_exc /\ result = NoResult)

Absent(g) == g.kind \in {"None", "Unset"}
AllAbsent == Absent(model_train) /\ Absent(model_pred) /\ Absent(model_raw_pred)
AllPresent ==
    /\ model_train.kind = "Train"
    /\ model_pred.kind = "Predict"
    /\ model_raw_pred.kind = "RawPredict"
    /\ model_train.gen = model_pred.gen
    /\ model_pred.gen = model_raw_pred.gen
graphs == << model_train, model_pred, model_raw_pred >>

====
